---------------------------- MODULE Spec2Model ----------------------------
(***************************************************************************)
(* A model of Coppy's OS-integration layer (src-tauri/src):                *)
(*   key_listener.rs        the low-level keyboard hook (InputWatcher)     *)
(*   clipboard_listener.rs  the clipboard poll loop (ClipboardMonitor)     *)
(*   lib.rs                 the commands (PasteInjector)                   *)
(* The program is the Windows build: key_listener.rs and lib.rs use the    *)
(* windows crate unconditionally, so the cfg(target_os = "windows") arms   *)
(* are the ones modelled.                                                  *)
(*                                                                         *)
(* Results of calls into the OS and into libraries (arboard, tauri) whose  *)
(* code is not part of the repository are inputs drawn with \E.  Variables *)
(* whose comment says "history" record what an operation did; the program  *)
(* does not read them.                                                     *)
(***************************************************************************)
EXTENDS Integers, Sequences, FiniteSets, TLC

(***************************************************************************)
(* Bounds of the model and program constants                               *)
(***************************************************************************)

\* number of top-level windows of other applications (handles 1..NumAppWindows)
NumAppWindows == 2

\* an instant (ms since UNIX_EPOCH) standing for "some time long after 1970"
Epoch == 1000

\* the history counters of sinceWrite stop counting at CountCap
CountCap == 2

\* key_listener.rs:73   if (now - last) < 400
DoubleTapMs == 400

\* key_listener.rs:15,16,21,90   0 = no release recorded / no window recorded
NullHwnd == 0

\* lib.rs:152, lib.rs:227   for _ in 0..8
MaxAttempts == 8

\* lib.rs:126,129   the four INPUT records; sent == inputs.len()
NumInputs == 4

\* the handle of the presentation window ("main")
MainHwnd == NumAppWindows + 1

AppWindows == 1..NumAppWindows

\* The instants at which the system clock is sampled.  SystemTime::now() is
\* any instant at or after UNIX_EPOCH (duration_since(..).unwrap()).
Instants ==
    { 0, DoubleTapMs - 1,
      Epoch, Epoch + DoubleTapMs - 1, Epoch + DoubleTapMs,
      Epoch + DoubleTapMs + 1 }

(***************************************************************************)
(* Values                                                                  *)
(***************************************************************************)

\* clipboard texts; "" is the empty string
Texts == {"", "a", "b"}

\* the clipboard holds no text format
NoText == "<no text>"

\* arboard::ImageData: width, height, RGBA bytes
Img(w, h, b) == [width |-> w, height |-> h, bytes |-> b]

\* the clipboard holds no image format
NoImage == Img(0, 0, <<>>)

EmptyClip == [text |-> NoText, image |-> NoImage]

ImgA  == Img(1, 1, <<0, 0, 0, 0>>)
\* as ImgA in width, height, length and bytes 0, 2, 3; differs in byte 1
ImgA2 == Img(1, 1, <<0, 1, 0, 0>>)
ImgB  == Img(1, 1, <<1, 0, 0, 0>>)
\* 2 x 1 pixels need 8 bytes: RgbaImage::from_raw returns None
ImgBad == Img(2, 1, <<0, 0, 0, 0>>)

Images == {ImgA, ImgA2, ImgB, ImgBad}

VARIABLES
    \* ---- key_listener.rs
    LAST_CTRL_RELEASE,      \* AtomicI64, key_listener.rs:15
    LAST_FOREGROUND_HWND,   \* AtomicUsize, key_listener.rs:16
    \* ---- the OS and the presentation layer
    clock,                  \* SystemTime::now() in ms
    window,                 \* the "main" webview window: "visible", "hidden", "closed"
    foreground,             \* GetForegroundWindow(): the handle holding OS focus
    clip,                   \* the system clipboard: [text, image]
    files,                  \* the paths of the files written to disk
    \* ---- clipboard_listener.rs
    mpc,                    \* the monitor thread: "start", "loop", "exited"
    last_text,              \* clipboard_listener.rs:56
    last_image_hash,        \* clipboard_listener.rs:57
    \* ---- lib.rs
    cmd,                    \* per command thread: the command it executes, its
                            \* position, the locals of the write loop, and
                            \* (history) what it has done so far
    \* ---- history
    lastHook,               \* the hook_callback invocation that has just
                            \* returned (NoHook after any other step)
    lastPass,               \* the monitor pass that has just ended (NoPass
                            \* after any other step)
    sinceWrite,             \* what the monitor did since the clipboard was
                            \* last written
    seenImage,              \* the image whose fingerprint last_image_hash holds
    taps                    \* the run of Ctrl releases, each less than
                            \* 400 ms after the one before, that is under way

hookVars == <<LAST_CTRL_RELEASE, LAST_FOREGROUND_HWND, taps>>
monVars == <<mpc, last_text, last_image_hash, seenImage>>
vars == <<LAST_CTRL_RELEASE, LAST_FOREGROUND_HWND, clock, files, window, foreground,
          clip, mpc, last_text, last_image_hash, cmd, lastHook, lastPass,
          sinceWrite, seenImage, taps>>


(***************************************************************************)
(* History values                                                          *)
(***************************************************************************)

NoHook ==
    [code |-> 0, vk |-> "none", flags |-> 0, event |-> "none", now |-> 0,
     last |-> 0, release |-> FALSE, fired |-> FALSE, wasWindow |-> "none",
     wasForeground |-> NullHwnd, wasHwnd |-> NullHwnd, forwards |-> 0,
     between |-> FALSE]

\* no run of releases is being counted; gap: the hook has seen another
\* event since the release that LAST_CTRL_RELEASE records
NoTaps == [quick |-> 0, fires |-> 0, prevAt |-> 0, gap |-> FALSE]

\* the threads on which the presentation layer's commands run
Threads == {"t1", "t2"}

\* a command thread with no command in progress
\* what the focus restore of a command did: the handle it loaded, whether
\* it asked the OS for the foreground and what the OS answered
NoFocus == [ran |-> FALSE, hwnd |-> 0, requested |-> FALSE, ok |-> FALSE]

\* what a save command met: the handle it read, the folder the resolver gave
\* ("none": unresolved or not asked), which directories and calls were
\* available, and the directory it chose
NoSave ==
    [ran |-> FALSE, hwnd |-> 0, asked |-> FALSE, folder |-> "none",
     downloads |-> FALSE, appdata |-> FALSE, mkdirOk |-> FALSE,
     timeOk |-> FALSE, writeOk |-> FALSE, base |-> "none"]

Idle ==
    [pc |-> "idle", kind |-> "none", text |-> NoText, img |-> NoImage,
     attempts |-> 0, last_err |-> "none", result |-> "none",
     log |-> <<>>, okAt |-> 0, attemptErr |-> "none", sent |-> -1,
     clean |-> TRUE, prev |-> [kind |-> "none", text |-> NoText, result |-> "none"],
     focus |-> NoFocus, save |-> NoSave,
     held |-> 0, peak |-> 0, before |-> EmptyClip]

\* someone else wrote the clipboard while the command of c is in progress
Overwritten(c) == IF c.pc = "idle" THEN c ELSE [c EXCEPT !.clean = FALSE]

\* an event emitted on "clipboard-update" (ClipboardUpdate,
\* clipboard_listener.rs:12-17): the content is a text, or the data URL of
\* an image (image_to_data_url, clipboard_listener.rs:31-44, which encodes
\* the pixels of img as PNG and base64)
TextEvent(t) == [type |-> "text", text |-> t, image |-> NoImage]
ImageEvent(img) == [type |-> "image", text |-> NoText, image |-> img]

\* the u64 0 that last_image_hash starts with (clipboard_listener.rs:57)
ZeroHash == <<0>>

NoPass ==
    [kind |-> "none", nth |-> 0, textOk |-> FALSE, content |-> NoText,
     imageTried |-> FALSE, imageOk |-> FALSE, img |-> NoImage,
     emitted |-> <<>>, wasLastText |-> "", wasLastHash |-> ZeroHash,
     wasSeenImage |-> NoImage]

Count(n) == IF n < CountCap THEN n + 1 ELSE CountCap

\* sinceWrite after a write of clipboard content c while the monitor's
\* last_text is seenText: no pass has read it yet
Written(c, seenText) ==
    [fresh |-> c.text # seenText, passes |-> 0, textReads |-> 0,
     textEvents |-> 0, imageEvents |-> 0, initial |-> FALSE]

\* sinceWrite when the process starts with content c on the clipboard
AtStartup(c) == [Written(c, "") EXCEPT !.initial = TRUE]

(***************************************************************************)
(* The threads of the process                                              *)
(***************************************************************************)

\* commands declared async, each run on a thread of its own
CommandThread_own(kind, p) == p

\* lib.rs:493-494, 648-649, 685-686, 462-463: the commands are declared
\* #[tauri::command] fn, without async: the runtime calls such a command on
\* the main thread, whichever invocation p of the presentation layer it
\* serves
CommandThread(kind, p) == "main"

\* the command of record c occupies its thread: it has started and has not
\* returned
Running(c) == c.pc \notin {"idle", "done"}

\* the main thread is inside a command
MainThreadBusy ==
    \E q \in Threads :
        Running(cmd[q]) /\ CommandThread(cmd[q].kind, q) = "main"

(***************************************************************************)
(* key_listener.rs: the keyboard hook                                      *)
(***************************************************************************)

VkCodes == {"VK_LCONTROL", "VK_RCONTROL", "VK_OTHER"}
KeyEvents == {"WM_KEYDOWN", "WM_KEYUP", "WM_SYSKEYDOWN", "WM_SYSKEYUP"}
\* KBDLLHOOKSTRUCT.flags: bit 7 is LLKHF_UP
KeyFlags == {0, 128}
\* the hook code: negative means "pass on without processing"
HookCodes == {-1, 0}

\* a hook that takes the release of any key for the gesture
IsCtrl_any(vk) == TRUE

\* key_listener.rs:58
IsCtrl(vk) == vk = "VK_LCONTROL" \/ vk = "VK_RCONTROL"

\* key_listener.rs:60   (flags >> 7) & 1 == 1
IsUp(flags) == (flags \div 128) % 2 = 1

\* key_listener.rs:54-64: the event is a release of the Ctrl key
IsCtrlRelease(code, vk, flags, event) ==
    /\ code >= 0
    /\ IsCtrl(vk)
    /\ ~(~IsUp(flags) /\ (event = "WM_KEYDOWN" \/ event = "WM_SYSKEYDOWN"))
    /\ IsUp(flags) /\ (event = "WM_KEYUP" \/ event = "WM_SYSKEYUP")

\* mutant: the threshold taken inclusively
IsDoubleTap_inclusive(now, last) == (now - last) <= DoubleTapMs

\* key_listener.rs:73
IsDoubleTap(now, last) == (now - last) < DoubleTapMs

\* mutant: an event that fired the toggle is swallowed
hook_forwards_swallow(code, release, fired) == IF fired THEN 0 ELSE 1

\* key_listener.rs:97: how many times the event is handed to CallNextHookEx
hook_forwards(code, release, fired) == 1

\* The OS picks the next foreground window when the one holding focus hides.
FocusAfterHide(fg) == IF fg = MainHwnd THEN {NullHwnd} \cup AppWindows ELSE {fg}

\* a toggle that reads the foreground window after it has shown its own
Toggle_lateCapture ==
    CASE window = "visible" ->
            /\ window' = "hidden"
            /\ foreground' \in FocusAfterHide(foreground)
            /\ UNCHANGED LAST_FOREGROUND_HWND
      [] window = "hidden" ->
            /\ LAST_FOREGROUND_HWND' = MainHwnd
            /\ window' = "visible"
            /\ foreground' = MainHwnd
      [] OTHER ->
            UNCHANGED <<window, foreground, LAST_FOREGROUND_HWND>>

\* key_listener.rs:75-89: the toggle, with app = APP_HANDLE (set at line 32
\* before the hook thread starts)
Toggle ==
    CASE window = "visible" ->
            /\ window' = "hidden"
            /\ foreground' \in FocusAfterHide(foreground)
            /\ UNCHANGED LAST_FOREGROUND_HWND
      [] window = "hidden" ->
            /\ LAST_FOREGROUND_HWND' = foreground
            /\ window' = "visible"
            /\ foreground' = MainHwnd
      [] OTHER ->
            UNCHANGED <<window, foreground, LAST_FOREGROUND_HWND>>

\* a hook whose window calls act from the hook's thread at once
ToggleWaits_never(windowFound, busy) == FALSE

\* key_listener.rs:76-86 with lines 34-35: the hook runs on the thread that
\* start_listening spawned, and is_visible, hide, set_position, show and
\* set_focus are requests to the event loop of the main thread: is_visible
\* returns when the loop has answered, which it does once the main thread
\* is out of the command it runs
ToggleWaits(windowFound, busy) == windowFound /\ busy

\* taps after a Ctrl release at now that found last recorded: a run starts
\* with a release that finds nothing recorded or comes 400 ms or more after
\* the release before it, and is counted up to its third release
TapsAfter(now, last, fired) ==
    LET hit == IF fired THEN 1 ELSE 0
    IN  IF taps.quick \in {1, 2} /\ now - taps.prevAt < DoubleTapMs
        THEN [quick |-> taps.quick + 1, fires |-> taps.fires + hit,
              prevAt |-> now, gap |-> FALSE]
        ELSE IF last = 0 \/ now - taps.prevAt >= DoubleTapMs
        THEN [quick |-> 1, fires |-> hit, prevAt |-> now, gap |-> FALSE]
        ELSE [quick |-> 0, fires |-> 0, prevAt |-> now, gap |-> FALSE]

\* key_listener.rs:53-98
hook_callback(code, vk, flags, event) ==
    LET now == clock
        last == LAST_CTRL_RELEASE
        release == IsCtrlRelease(code, vk, flags, event)
        fired == release /\ IsDoubleTap(now, last)
    IN  /\ ~(fired /\ ToggleWaits(window # "closed", MainThreadBusy))
        /\ IF release
           THEN IF fired
                THEN /\ Toggle
                     /\ LAST_CTRL_RELEASE' = 0
                ELSE /\ LAST_CTRL_RELEASE' = now
                     /\ UNCHANGED <<window, foreground, LAST_FOREGROUND_HWND>>
           ELSE UNCHANGED <<LAST_CTRL_RELEASE, window, foreground,
                            LAST_FOREGROUND_HWND>>
        /\ taps' = IF release THEN TapsAfter(now, last, fired)
                   ELSE IF last # 0 THEN [taps EXCEPT !.gap = TRUE]
                   ELSE taps
        /\ lastHook' = [code |-> code, vk |-> vk, flags |-> flags,
                        event |-> event, now |-> now, last |-> last,
                        release |-> release, fired |-> fired,
                        wasWindow |-> window, wasForeground |-> foreground,
                        wasHwnd |-> LAST_FOREGROUND_HWND,
                        forwards |-> hook_forwards(code, release, fired),
                        between |-> taps.gap]
        /\ lastPass' = NoPass
        /\ UNCHANGED <<clock, files, clip, sinceWrite, monVars, cmd>>

\* The OS delivers a keyboard event to the hook.
KeyEvent ==
    \E code \in HookCodes, vk \in VkCodes, flags \in KeyFlags, event \in KeyEvents :
        hook_callback(code, vk, flags, event)

(***************************************************************************)
(* clipboard_listener.rs: the clipboard monitor                            *)
(***************************************************************************)

\* the clipboard after EmptyClipboard

\* what the clipboard can hold: a text format, an image format, both or
\* neither
ClipContents == [text : Texts \cup {NoText}, image : Images \cup {NoImage}]

\* mutant: a hash of the whole content
Fingerprint_full(img) == <<img.width, img.height, img.bytes>>

\* clipboard_listener.rs:20-29: DefaultHasher over width, height, the byte
\* length and, when there are bytes, bytes[0], bytes[len / 2], bytes[len - 1].
\* The hash value is the tuple of what was fed to the hasher.
Fingerprint(img) ==
    LET n == Len(img.bytes)
    IN  IF n = 0
        THEN <<img.width, img.height, n>>
        ELSE <<img.width, img.height, n,
               img.bytes[1], img.bytes[(n \div 2) + 1], img.bytes[n]>>

\* clipboard_listener.rs:31-35: RgbaImage::from_raw is None when the buffer
\* is too small for width x height RGBA pixels
FitsRgba(img) == img.width * img.height * 4 <= Len(img.bytes)

\* clipboard_listener.rs:19-45: Some((hash, data_url)) or None
image_to_data_url(img) ==
    [some |-> FitsRgba(img), hash |-> Fingerprint(img), url |-> ImageEvent(img)]

\* arboard get_text / get_image: Ok(content) when the format is on the
\* clipboard and the read is not rejected (busy: another process holds the
\* clipboard), Err otherwise
TextReadOk(busy) == clip.text # NoText /\ ~busy
ImageReadOk(busy) == clip.image # NoImage /\ ~busy

\* a monitor that emits every text it reads
IsNewText_always(textOk, content, last) == textOk

\* clipboard_listener.rs:86-87
IsNewText(textOk, content, last) == textOk /\ content # last /\ content # ""

\* clipboard_listener.rs:97-99
IsNewImage(imageOk, conv, lastHash) ==
    imageOk /\ conv.some /\ conv.hash # lastHash

\* a monitor that keeps last_text when it emits an image
NextLastText_kept(newText, newImage, content, last) ==
    IF newText THEN content ELSE last

\* clipboard_listener.rs:88, 101: last_text after a turn of the loop
NextLastText(newText, newImage, content, last) ==
    IF newText THEN content
    ELSE IF newImage THEN ""
    ELSE last

\* the history of a pass
PassRecord(kind, textOk, imageTried, imageOk, emitted) ==
    [kind |-> kind, nth |-> Count(sinceWrite.passes), textOk |-> textOk,
     content |-> IF textOk THEN clip.text ELSE NoText,
     imageTried |-> imageTried, imageOk |-> imageOk,
     img |-> IF imageOk THEN clip.image ELSE NoImage,
     emitted |-> emitted, wasLastText |-> last_text,
     wasLastHash |-> last_image_hash, wasSeenImage |-> seenImage]

PassCounted(textOk, emitted) ==
    [sinceWrite EXCEPT
        !.passes = Count(@),
        !.textReads = IF textOk THEN Count(@) ELSE @,
        !.textEvents = IF emitted # <<>> /\ emitted[1].type = "text"
                       THEN Count(@) ELSE @,
        !.imageEvents = IF emitted # <<>> /\ emitted[1].type = "image"
                        THEN Count(@) ELSE @]

MonitorFrame ==
    /\ lastHook' = NoHook
    /\ UNCHANGED <<hookVars, clock, files, window, foreground, clip, cmd>>

\* clipboard_listener.rs:49-54: Clipboard::new()
MonitorInit ==
    /\ mpc = "start"
    /\ \E ok \in BOOLEAN : mpc' = IF ok THEN "startup" ELSE "exited"
    /\ lastPass' = NoPass
    /\ UNCHANGED <<last_text, last_image_hash, seenImage, sinceWrite>>
    /\ MonitorFrame

\* clipboard_listener.rs:63-83: the pass before the loop
StartupPass ==
    /\ mpc = "startup"
    /\ mpc' = "loop"
    /\ \E textBusy \in BOOLEAN, imageBusy \in BOOLEAN :
         LET textOk == TextReadOk(textBusy)
             imageOk == ~textOk /\ ImageReadOk(imageBusy)
             conv == image_to_data_url(clip.image)
             emitted == IF textOk THEN <<TextEvent(clip.text)>>
                        ELSE IF imageOk /\ conv.some THEN <<conv.url>>
                        ELSE <<>>
         IN  /\ last_text' = IF textOk THEN clip.text ELSE last_text
             /\ IF imageOk /\ conv.some
                THEN last_image_hash' = conv.hash /\ seenImage' = clip.image
                ELSE UNCHANGED <<last_image_hash, seenImage>>
             /\ lastPass' = PassRecord("startup", textOk, ~textOk, imageOk, emitted)
             /\ sinceWrite' = PassCounted(textOk, emitted)
    /\ MonitorFrame

\* clipboard_listener.rs:85-113: one turn of the loop, up to the sleep
Tick ==
    /\ mpc = "loop"
    /\ \E textBusy \in BOOLEAN, imageBusy \in BOOLEAN :
         LET textOk == TextReadOk(textBusy)
             imageOk == ~textOk /\ ImageReadOk(imageBusy)
             conv == image_to_data_url(clip.image)
             newText == IsNewText(textOk, clip.text, last_text)
             newImage == IsNewImage(imageOk, conv, last_image_hash)
             emitted == IF newText THEN <<TextEvent(clip.text)>>
                        ELSE IF newImage THEN <<conv.url>>
                        ELSE <<>>
         IN  /\ last_text' = NextLastText(newText, newImage, clip.text, last_text)
             /\ IF newImage
                THEN last_image_hash' = conv.hash /\ seenImage' = clip.image
                ELSE UNCHANGED <<last_image_hash, seenImage>>
             /\ lastPass' = PassRecord("tick", textOk, ~textOk, imageOk, emitted)
             /\ sinceWrite' = PassCounted(textOk, emitted)
    /\ UNCHANGED mpc
    /\ MonitorFrame

\* Another application (or the user) puts content on the clipboard; the
\* content may equal what is there.
ExternalCopyOf(contents) ==
    /\ \E c \in contents :
         /\ clip' = c
         /\ sinceWrite' = Written(c, last_text)
    /\ cmd' = [q \in Threads |-> Overwritten(cmd[q])]
    /\ lastHook' = NoHook /\ lastPass' = NoPass
    /\ UNCHANGED <<hookVars, clock, files, window, foreground, monVars>>

ExternalCopy == ExternalCopyOf(ClipContents)

(***************************************************************************)
(* lib.rs: the commands set_clipboard_text, paste_text, paste_image        *)
(***************************************************************************)

\* a data URL given to paste_image: whether it holds a comma (split_once),
\* whether what follows decodes as base64, and the RGBA image that
\* image::load_from_memory(..).to_rgba8() makes of the bytes (NoImage when
\* they are no image)
DataUrl(comma, b64, img) == [comma |-> comma, b64 |-> b64, img |-> img]

DataUrls ==
    { DataUrl(FALSE, FALSE, NoImage), DataUrl(TRUE, FALSE, NoImage),
      DataUrl(TRUE, TRUE, NoImage), DataUrl(TRUE, TRUE, ImgA),
      DataUrl(TRUE, TRUE, ImgB) }

\* a paste_image that hands whatever it was given to the write
DecodeError_lenient(url) == "Ok"

\* lib.rs:693-703: Ok (the image is url.img) or the error
DecodeError(url) ==
    IF ~url.comma THEN "Invalid data URL"
    ELSE IF ~url.b64 THEN "Failed to decode base64"
    ELSE IF url.img = NoImage THEN "Failed to decode image"
    ELSE "Ok"

\* lib.rs:149
InitError == "Failed to init clipboard"

\* lib.rs:159: arboard's set_text failed: the clipboard was held by another
\* process, or the write failed after the clipboard was opened
TextWriteErrors ==
    { "Failed to set clipboard text: ClipboardOccupied",
      "Failed to set clipboard text: Unknown" }

\* lib.rs:232-297: the step at which one attempt of try_set_clipboard_image
\* failed
ImageWriteErrors ==
    { "Failed to open clipboard", "Failed to empty clipboard",
      "Failed to allocate global memory", "Failed to lock global memory",
      "Failed to set clipboard data" }

WriteErrors == TextWriteErrors \cup ImageWriteErrors

\* the clipboard calls up to the one that failed, then the close
CallsUpTo(failed) ==
    LET steps == <<"OpenClipboard", "EmptyClipboard", "GlobalAlloc",
                   "GlobalLock", "SetClipboardData">>
        n == CHOOSE i \in 1..Len(steps) : steps[i] = failed
    IN  IF n = 1 THEN <<"OpenClipboard failed">>
        ELSE SubSeq(steps, 1, n - 1)
                 \o <<steps[n] \o " failed", "CloseClipboard">>

AllCalls ==
    <<"OpenClipboard", "EmptyClipboard", "GlobalAlloc", "GlobalLock",
      "SetClipboardData", "CloseClipboard">>

\* an attempt that goes to the next turn from a failed GlobalLock without
\* closing the clipboard
ImageAttemptCalls_leak(err) ==
    CASE err = "Failed to open clipboard" -> CallsUpTo("OpenClipboard")
      [] err = "Failed to empty clipboard" -> CallsUpTo("EmptyClipboard")
      [] err = "Failed to allocate global memory" -> CallsUpTo("GlobalAlloc")
      [] err = "Failed to lock global memory" ->
            <<"OpenClipboard", "EmptyClipboard", "GlobalAlloc",
              "GlobalLock failed">>
      [] err = "Failed to set clipboard data" -> CallsUpTo("SetClipboardData")
      [] OTHER -> AllCalls

\* lib.rs:232-304: the clipboard and memory calls of one attempt of
\* try_set_clipboard_image that ends with err
ImageAttemptCalls(err) ==
    CASE err = "Failed to open clipboard" -> CallsUpTo("OpenClipboard")
      [] err = "Failed to empty clipboard" -> CallsUpTo("EmptyClipboard")
      [] err = "Failed to allocate global memory" -> CallsUpTo("GlobalAlloc")
      [] err = "Failed to lock global memory" -> CallsUpTo("GlobalLock")
      [] err = "Failed to set clipboard data" -> CallsUpTo("SetClipboardData")
      [] OTHER -> AllCalls

\* lib.rs:576-640: the clipboard and memory calls of set_clipboard_file
\* with the given outcome
FileDropCalls(outcome) ==
    CASE outcome = "Failed to open clipboard" -> CallsUpTo("OpenClipboard")
      [] outcome = "Failed to empty clipboard" -> CallsUpTo("EmptyClipboard")
      [] outcome = "Failed to allocate memory" -> CallsUpTo("GlobalAlloc")
      [] outcome = "Failed to lock memory" -> CallsUpTo("GlobalLock")
      [] outcome = "Failed to set clipboard data" -> CallsUpTo("SetClipboardData")
      [] OTHER -> AllCalls

\* lib.rs:154: try_set_clipboard_text writes through arboard and makes no
\* clipboard call of its own
WriteCalls(kind, err) ==
    IF kind = "paste_image" THEN ImageAttemptCalls(err) ELSE <<>>

\* how many times the process holds the clipboard open after calls, having
\* held it h times before: OpenClipboard takes it, CloseClipboard releases
\* it, a failed call changes nothing
RECURSIVE HeldAfter(_, _)
HeldAfter(h, calls) ==
    IF calls = <<>> THEN h
    ELSE HeldAfter(CASE Head(calls) = "OpenClipboard" -> h + 1
                     [] Head(calls) = "CloseClipboard" /\ h > 0 -> h - 1
                     [] OTHER -> h,
                   Tail(calls))

\* the most the process has held the clipboard open during calls
RECURSIVE PeakDuring(_, _)
PeakDuring(h, calls) ==
    IF calls = <<>> THEN h
    ELSE LET rest == PeakDuring(HeldAfter(h, <<Head(calls)>>), Tail(calls))
         IN  IF rest > h THEN rest ELSE h

\* lib.rs:132 with lib.rs:670: the error for sent = 0..3
SendErrors ==
    << "Failed to send Ctrl+V: SendInput sent 0 events",
       "Failed to send Ctrl+V: SendInput sent 1 events",
       "Failed to send Ctrl+V: SendInput sent 2 events",
       "Failed to send Ctrl+V: SendInput sent 3 events" >>

\* a send_ctrl_v content with a partial insertion
send_ctrl_v_partial(sent) == IF sent > 0 THEN "Ok" ELSE SendErrors[1]

\* lib.rs:128-133
send_ctrl_v(sent) == IF sent = NumInputs THEN "Ok" ELSE SendErrors[sent + 1]

\* a loop that goes on after a successful attempt
LoopExit_noBreak(ok, n) == n >= MaxAttempts

\* lib.rs:152-157, 227-308: the loop ends after attempt n (counted from 1)
\* when the attempt succeeded (break) or the range 0..8 is used up
LoopExit(ok, n) == ok \/ n >= MaxAttempts

\* a loop that keeps the first error
NextLastErr_first(ok, err, last) ==
    IF ok THEN "none" ELSE IF last = "none" THEN err ELSE last

\* lib.rs:154-160, 234-307: last_err after an attempt
NextLastErr(ok, err, last) == IF ok THEN "none" ELSE err

\* lib.rs:165-169, 312-318
LoopResult(last) == IF last = "none" THEN "Ok" ELSE last

\* a paste command that goes on whatever the write returned
AfterWrite_always(res) == "focus"

\* lib.rs:656-664, 708-713: a paste command goes on to the focus restore
\* only when the write returned Ok
AfterWrite(res) == IF res = "Ok" THEN "focus" ELSE "done"

IsPaste(kind) == kind = "paste_text" \/ kind = "paste_image"

\* the clipboard after a failed attempt: EmptyClipboard has run when the
\* failure came later (lib.rs:241-297); arboard's set_text may have emptied
\* the clipboard before it failed
AfterFailedWrite(err) ==
    CASE err \in { "Failed to open clipboard", "Failed to empty clipboard",
                   "Failed to set clipboard text: ClipboardOccupied" } -> {clip}
      [] err = "Failed to set clipboard text: Unknown" -> {clip, EmptyClip}
      [] OTHER -> {EmptyClip}

\* a write that leaves the clipboard without content
WrittenContent_none(c) == EmptyClip

\* lib.rs:154, 244-303: what a successful attempt of command c leaves on the
\* clipboard (both writers empty the clipboard first)
WrittenContent(c) ==
    IF c.kind = "paste_image"
    THEN [text |-> NoText, image |-> c.img]
    ELSE [text |-> c.text, image |-> NoImage]

\* the step of thread p: its record becomes rec, the clipboard c; wrote says
\* that the step wrote the clipboard
CmdStep(p, rec, c, wrote) ==
    /\ cmd' = [q \in Threads |->
                 IF q = p THEN rec
                 ELSE IF wrote THEN Overwritten(cmd[q]) ELSE cmd[q]]
    /\ clip' = c
    /\ sinceWrite' = IF wrote THEN Written(c, last_text) ELSE sinceWrite
    /\ lastHook' = NoHook /\ lastPass' = NoPass
    /\ UNCHANGED <<hookVars, clock, files, monVars>>

\* the command has returned res to the presentation layer
Returned(rec, res) == [rec EXCEPT !.pc = "done", !.result = res]

\* the thread that is to run command kind for invocation p is not inside
\* another command
CanStart(p, kind) ==
    \A q \in Threads \ {p} :
        Running(cmd[q]) =>
            CommandThread(cmd[q].kind, q) # CommandThread(kind, p)

\* lib.rs:494-496 with 148-149: set_clipboard_text up to the write loop
set_clipboard_text(p, text) ==
    /\ cmd[p].pc = "idle"
    /\ CanStart(p, "set_clipboard_text")
    /\ \E initOk \in BOOLEAN :
         LET rec == [cmd[p] EXCEPT !.kind = "set_clipboard_text", !.text = text]
         IN  CmdStep(p, IF initOk THEN [rec EXCEPT !.pc = "attempt"]
                        ELSE Returned(rec, InitError), clip, FALSE)
    /\ UNCHANGED <<window, foreground>>

\* lib.rs:652-654, 689-691: if let Some(window) = .. { window.hide() }
HideWindow ==
    IF window = "closed"
    THEN UNCHANGED <<window, foreground>>
    ELSE /\ window' = "hidden"
         /\ foreground' \in (IF window = "visible"
                             THEN FocusAfterHide(foreground) ELSE {foreground})

HideLog == IF window = "closed" THEN <<>> ELSE <<"hide">>

\* lib.rs:649-656 with 148-149: paste_text up to the write loop
paste_text(p, text) ==
    /\ cmd[p].pc = "idle"
    /\ CanStart(p, "paste_text")
    /\ HideWindow
    /\ \E initOk \in BOOLEAN :
         LET rec == [cmd[p] EXCEPT !.kind = "paste_text", !.text = text,
                                   !.log = HideLog]
         IN  CmdStep(p, IF initOk THEN [rec EXCEPT !.pc = "attempt"]
                        ELSE Returned(rec, InitError), clip, FALSE)

\* lib.rs:686-708: paste_image up to the write loop
paste_image(p, url) ==
    /\ cmd[p].pc = "idle"
    /\ CanStart(p, "paste_image")
    /\ HideWindow
    /\ LET rec == [cmd[p] EXCEPT !.kind = "paste_image", !.img = url.img,
                                 !.log = HideLog,
                                 !.before = IF DecodeError(url) = "Ok"
                                            THEN clip ELSE @]
       IN  CmdStep(p, IF DecodeError(url) = "Ok"
                      THEN [rec EXCEPT !.pc = "attempt"]
                      ELSE Returned(rec, DecodeError(url)), clip, FALSE)

\* one attempt of the thread's write loop, with its outcome err ("Ok" or the
\* error), up to the next attempt or the return of the write function and
\* what its caller does with the result
WriteAttempt(p, err) ==
    LET c == cmd[p]
        n == c.attempts + 1
        ok == err = "Ok"
        last == NextLastErr(ok, err, c.last_err)
        rec == [c EXCEPT !.attempts = n, !.last_err = last,
                         !.attemptErr = err, !.log = Append(@, "write"),
                         !.okAt = IF ok /\ @ = 0 THEN n ELSE @,
                         !.clean = IF ok THEN TRUE ELSE @,
                         !.held = HeldAfter(@, WriteCalls(c.kind, err)),
                         !.peak = LET pk == PeakDuring(c.held,
                                                      WriteCalls(c.kind, err))
                                  IN  IF pk > @ THEN pk ELSE @]
        res == LoopResult(last)
        done == IF c.kind = "set_clipboard_text" \/ AfterWrite(res) = "done"
                THEN Returned(rec, res)
                ELSE [rec EXCEPT !.pc = AfterWrite(res)]
    IN  \E after \in (IF ok THEN {WrittenContent(c)} ELSE AfterFailedWrite(err)) :
            CmdStep(p, IF LoopExit(ok, n) THEN done ELSE rec, after,
                    ok \/ after # clip)

\* lib.rs:152-163: one turn of try_set_clipboard_text's loop
TextAttempt(p) ==
    /\ cmd[p].pc = "attempt"
    /\ cmd[p].kind \in {"set_clipboard_text", "paste_text"}
    /\ \E err \in {"Ok"} \cup TextWriteErrors : WriteAttempt(p, err)
    /\ UNCHANGED <<window, foreground>>

\* lib.rs:227-310: one turn of try_set_clipboard_image's loop
ImageAttempt(p) ==
    /\ cmd[p].pc = "attempt"
    /\ cmd[p].kind = "paste_image"
    /\ \E err \in {"Ok"} \cup ImageWriteErrors : WriteAttempt(p, err)
    /\ UNCHANGED <<window, foreground>>

\* a focus restore that asks the OS whatever the handle is
FocusRequested_always(hwnd_val) == TRUE

\* key_listener.rs:21: SetForegroundWindow is called for a handle other than 0
FocusRequested(hwnd_val) == hwnd_val # 0

\* a paste command that gives up when the OS refuses the foreground
AfterFocus_fatal(requested, ok) ==
    IF requested /\ ~ok THEN "done" ELSE "settle"

\* key_listener.rs:23-28 with lib.rs:661-666, 710-715:
\* focus_last_foreground_window returns nothing, the result of
\* SetForegroundWindow is only logged, and the caller goes on to the sleep
AfterFocus(requested, ok) == "settle"

\* a focus restore that takes the handle out of LAST_FOREGROUND_HWND
focus_last_foreground_window_take(p) ==
    /\ cmd[p].pc = "focus"
    /\ LET hwnd_val == LAST_FOREGROUND_HWND
           requested == FocusRequested(hwnd_val)
       IN  \E ok \in (IF requested THEN BOOLEAN ELSE {FALSE}) :
             /\ foreground' = IF requested /\ ok THEN hwnd_val ELSE foreground
             /\ cmd' = [cmd EXCEPT ![p] =
                          [@ EXCEPT !.pc = AfterFocus(requested, ok),
                                    !.log = Append(@, "focus"),
                                    !.focus = [ran |-> TRUE, hwnd |-> hwnd_val,
                                               requested |-> requested,
                                               ok |-> ok]]]
    /\ LAST_FOREGROUND_HWND' = NullHwnd
    /\ lastHook' = NoHook /\ lastPass' = NoPass
    /\ UNCHANGED <<LAST_CTRL_RELEASE, taps, clock, files, window, clip,
                   sinceWrite, monVars>>

\* key_listener.rs:19-29, called at lib.rs:663, 712
focus_last_foreground_window(p) ==
    /\ cmd[p].pc = "focus"
    /\ LET hwnd_val == LAST_FOREGROUND_HWND
           requested == FocusRequested(hwnd_val)
       IN  \E ok \in (IF requested THEN BOOLEAN ELSE {FALSE}) :
             /\ foreground' = IF requested /\ ok THEN hwnd_val ELSE foreground
             /\ CmdStep(p, [cmd[p] EXCEPT
                               !.pc = AfterFocus(requested, ok),
                               !.log = Append(@, "focus"),
                               !.focus = [ran |-> TRUE, hwnd |-> hwnd_val,
                                          requested |-> requested, ok |-> ok]],
                        clip, FALSE)
    /\ UNCHANGED window

\* lib.rs:666, 715: thread::sleep(320 ms)
Settle(p) ==
    /\ cmd[p].pc = "settle"
    /\ CmdStep(p, [cmd[p] EXCEPT !.pc = "keystroke", !.log = Append(@, "settle")],
               clip, FALSE)
    /\ UNCHANGED <<window, foreground>>

\* lib.rs:668-671, 717-720 with send_ctrl_v, lib.rs:73-134; SendInput
\* returns the number of events it inserted
Keystroke(p) ==
    /\ cmd[p].pc = "keystroke"
    /\ \E sent \in 0..NumInputs :
         CmdStep(p, Returned([cmd[p] EXCEPT !.sent = sent,
                                            !.log = Append(@, "keystroke")],
                             send_ctrl_v(sent)),
                 clip, FALSE)
    /\ UNCHANGED <<window, foreground>>

\* what the next command on the thread remembers of the command c that
\* returned before it: a paste_text that returned Ok
Previous(c) ==
    IF c.kind = "paste_text" /\ c.result = "Ok"
    THEN [kind |-> c.kind, text |-> c.text, result |-> c.result]
    ELSE Idle.prev

\* the presentation layer has the result; the thread is free for the next
\* command
CmdReturn(p) ==
    /\ cmd[p].pc = "done"
    /\ CmdStep(p, [Idle EXCEPT !.prev = Previous(cmd[p])], clip, FALSE)
    /\ UNCHANGED <<window, foreground>>

\* lib.rs:141: what simulate_paste does when Enigo::new fails: unwrap()
\* panics, the command returns nothing and the thread that ran it unwinds
EnigoFailure == "aborted"

\* lib.rs:136-146: simulate_paste; it returns (), the results of the three
\* key calls are dropped
simulate_paste(p) ==
    /\ cmd[p].pc = "idle"
    /\ CanStart(p, "simulate_paste")
    /\ \E enigoOk \in BOOLEAN :
         LET rec == [cmd[p] EXCEPT !.kind = "simulate_paste"]
         IN  CmdStep(p, IF enigoOk THEN Returned(rec, "Ok")
                        ELSE [rec EXCEPT !.pc = EnigoFailure], clip, FALSE)
    /\ UNCHANGED <<window, foreground>>

\* the presentation layer invokes a command on thread p
Invoke(p) ==
    \/ simulate_paste(p)
    \/ \E text \in Texts : set_clipboard_text(p, text)
    \/ \E text \in Texts : paste_text(p, text)
    \/ \E url \in DataUrls : paste_image(p, url)

CmdNext(p) ==
    \/ Invoke(p)
    \/ TextAttempt(p)
    \/ ImageAttempt(p)
    \/ focus_last_foreground_window(p)
    \/ Settle(p)
    \/ Keystroke(p)
    \/ CmdReturn(p)

(***************************************************************************)
(* lib.rs: the command save_image_data_url                                 *)
(***************************************************************************)

\* a data URL given to save_image_data_url: whether it holds a comma, whether
\* what follows decodes as base64, whether the part before the comma names
\* image/jpeg or image/jpg, whether the bytes load as an image
SaveUrl(comma, b64, jpeg, image) ==
    [comma |-> comma, b64 |-> b64, jpeg |-> jpeg, image |-> image]

SaveUrls ==
    { SaveUrl(FALSE, FALSE, FALSE, FALSE), SaveUrl(TRUE, FALSE, FALSE, FALSE),
      SaveUrl(TRUE, TRUE, TRUE, FALSE), SaveUrl(TRUE, TRUE, FALSE, FALSE),
      SaveUrl(TRUE, TRUE, FALSE, TRUE) }

Extensions == {"jpg", "png"}

\* lib.rs:464-489: the extension of the file to write, or the error
SaveDecode(url, encodeOk) ==
    IF ~url.comma THEN "Invalid data URL"
    ELSE IF ~url.b64 THEN "Failed to decode base64"
    ELSE IF url.jpeg THEN "jpg"
    ELSE IF ~url.image THEN "Failed to decode image"
    ELSE IF ~encodeOk THEN "Failed to encode PNG"
    ELSE "png"

\* key_listener::last_foreground_hwnd(), called at lib.rs:422; the function
\* is not in key_listener.rs: it returns the handle captured in FocusContext
last_foreground_hwnd == LAST_FOREGROUND_HWND

\* the folders a file-manager window can show
Folders == {"explorer"}

\* lib.rs:423-424: try_get_explorer_folder_from_hwnd is called for a handle
\* other than 0
ResolverAsked(hwnd) == hwnd # 0

DirError == "Failed to get output dir"

\* a save that needs the folder of the foreground window
BaseDir_needsFolder(hwnd, folder, downloads, appdata) ==
    IF hwnd # 0 /\ folder # "none" THEN folder ELSE DirError

\* lib.rs:421-438: the directory under which the file goes; folder is what
\* try_get_explorer_folder_from_hwnd returned ("none" for None)
BaseDir(hwnd, folder, downloads, appdata) ==
    IF hwnd # 0 /\ folder # "none" THEN folder
    ELSE IF downloads THEN "downloads"
    ELSE IF appdata THEN "appdata"
    ELSE DirError

\* lib.rs:447-459: the path written, or the error
SaveBytes(base, extension, mkdirOk, timeOk, writeOk) ==
    IF base = DirError THEN DirError
    ELSE IF ~mkdirOk THEN "Failed to create output dir"
    ELSE IF ~timeOk THEN "Failed to read system time"
    ELSE IF ~writeOk THEN "Failed to write file"
    ELSE base \o "/Coppy/coppy." \o extension

SaveErrors ==
    { "Invalid data URL", "Failed to decode base64", "Failed to decode image",
      "Failed to encode PNG", DirError, "Failed to create output dir",
      "Failed to read system time", "Failed to write file" }

\* lib.rs:462-491 with save_bytes_to_default_dir, lib.rs:414-460
save_image_data_url(p, url) ==
    /\ cmd[p].pc = "idle"
    /\ CanStart(p, "save_image_data_url")
    /\ \E encodeOk, downloads, appdata, mkdirOk, timeOk, writeOk \in BOOLEAN :
       \E found \in Folders \cup {"none"} :
         LET ext == SaveDecode(url, encodeOk)
             hwnd == last_foreground_hwnd
             asked == ext \in Extensions /\ ResolverAsked(hwnd)
             folder == IF asked THEN found ELSE "none"
             base == BaseDir(hwnd, folder, downloads, appdata)
             res == IF ext \in Extensions
                    THEN SaveBytes(base, ext, mkdirOk, timeOk, writeOk)
                    ELSE ext
             ran == ext \in Extensions
             byDefault == ran /\ ~(hwnd # 0 /\ folder # "none")
             made == ran /\ base # DirError /\ mkdirOk
             \* the outcome of each call the command made; FALSE for a call
             \* it did not reach
             met == [ran |-> ran, hwnd |-> hwnd,
                     asked |-> asked, folder |-> folder,
                     downloads |-> byDefault /\ downloads,
                     appdata |-> byDefault /\ ~downloads /\ appdata,
                     mkdirOk |-> made,
                     timeOk |-> made /\ timeOk,
                     writeOk |-> made /\ timeOk /\ writeOk, base |-> base]
         IN  /\ cmd' = [cmd EXCEPT ![p] =
                          Returned([@ EXCEPT !.kind = "save_image_data_url",
                                             !.save = met], res)]
             /\ files' = IF res \in SaveErrors THEN files ELSE files \cup {res}
    /\ lastHook' = NoHook /\ lastPass' = NoPass
    /\ UNCHANGED <<hookVars, clock, window, foreground, clip, sinceWrite, monVars>>

(***************************************************************************)
(* lib.rs: the command set_clipboard_image                                 *)
(***************************************************************************)

\* lib.rs:576-636: the step at which set_clipboard_file failed
FileDropErrors ==
    { "Failed to open clipboard", "Failed to empty clipboard",
      "Failed to allocate memory", "Failed to lock memory",
      "Failed to set clipboard data" }

TempFile == "temp/coppy_clipboard.png"

\* lib.rs:502-508 with save_image_to_temp, lib.rs:522-549: the path of the
\* temporary file, or the error
SaveToTemp(url, tempDirOk, timeOk, encodeOk, writeOk) ==
    IF DecodeError(url) # "Ok" THEN DecodeError(url)
    ELSE IF ~tempDirOk THEN "Failed to get temp dir"
    ELSE IF ~timeOk THEN "Failed to get time"
    ELSE IF ~encodeOk THEN "Failed to encode PNG"
    ELSE IF ~writeOk THEN "Failed to write temp file"
    ELSE TempFile

\* lib.rs:576-640: how many times set_clipboard_file tries the clipboard:
\* each failing call returns at once
FileDropAttempts == 1

\* lib.rs:581-636: the text and image formats of the clipboard after
\* set_clipboard_file; EmptyClipboard has removed them once OpenClipboard
\* and EmptyClipboard succeeded (the file list it then holds is neither)
AfterFileDrop(outcome) ==
    IF outcome \in {"Failed to open clipboard", "Failed to empty clipboard"}
    THEN clip ELSE EmptyClip

\* lib.rs:498-519 with save_image_to_temp and set_clipboard_file
set_clipboard_image(p, url) ==
    /\ cmd[p].pc = "idle"
    /\ CanStart(p, "set_clipboard_image")
    /\ \E tempDirOk, timeOk, encodeOk, writeOk \in BOOLEAN :
       \E outcome \in {"Ok"} \cup FileDropErrors :
         LET temp == SaveToTemp(url, tempDirOk, timeOk, encodeOk, writeOk)
             saved == temp = TempFile
             after == IF saved THEN AfterFileDrop(outcome) ELSE clip
             rec == [cmd[p] EXCEPT
                        !.kind = "set_clipboard_image", !.img = url.img,
                        !.attempts = IF saved THEN FileDropAttempts ELSE 0,
                        !.attemptErr = IF saved THEN outcome ELSE "none",
                        !.okAt = IF saved /\ outcome = "Ok" THEN 1 ELSE 0,
                        !.held = IF saved
                                 THEN HeldAfter(0, FileDropCalls(outcome))
                                 ELSE 0,
                        !.peak = IF saved
                                 THEN PeakDuring(0, FileDropCalls(outcome))
                                 ELSE 0,
                        !.before = IF saved THEN clip ELSE @]
         IN  /\ cmd' = [q \in Threads |->
                          IF q = p THEN Returned(rec, IF saved THEN outcome ELSE temp)
                          ELSE IF after # clip THEN Overwritten(cmd[q]) ELSE cmd[q]]
             /\ files' = IF saved THEN files \cup {TempFile} ELSE files
             /\ clip' = after
             /\ sinceWrite' = IF after # clip \/ (saved /\ outcome = "Ok")
                              THEN Written(after, last_text) ELSE sinceWrite
    /\ lastHook' = NoHook /\ lastPass' = NoPass
    /\ UNCHANGED <<hookVars, clock, window, foreground, monVars>>

(***************************************************************************)
(* The environment: the clock, the user, other applications                *)
(***************************************************************************)

ClockAdvance ==
    /\ \E t \in Instants : t > clock /\ clock' = t
    /\ lastHook' = NoHook /\ lastPass' = NoPass
    /\ UNCHANGED <<hookVars, files, window, foreground, clip, sinceWrite, monVars, cmd>>

\* Another window (or none) takes the OS focus.
FocusChange ==
    /\ \E h \in {NullHwnd} \cup AppWindows : h # foreground /\ foreground' = h
    /\ lastHook' = NoHook /\ lastPass' = NoPass
    /\ UNCHANGED <<hookVars, clock, files, window, clip, sinceWrite, monVars, cmd>>

\* The presentation window is destroyed: get_webview_window("main") is None.
WindowClosed ==
    /\ window # "closed"
    /\ window' = "closed"
    /\ foreground' \in FocusAfterHide(foreground)
    /\ lastHook' = NoHook /\ lastPass' = NoPass
    /\ UNCHANGED <<hookVars, clock, files, clip, sinceWrite, monVars, cmd>>

(***************************************************************************)
(* Initial state                                                           *)
(***************************************************************************)

Init ==
    /\ LAST_CTRL_RELEASE = 0
    /\ LAST_FOREGROUND_HWND = NullHwnd
    /\ clock \in {0, Epoch}
    /\ window \in {"visible", "hidden"}
    /\ foreground \in ({NullHwnd} \cup AppWindows
                        \cup (IF window = "visible" THEN {MainHwnd} ELSE {}))
    /\ clip \in ClipContents
    /\ mpc = "start"
    /\ last_text = ""
    /\ last_image_hash = ZeroHash
    /\ seenImage = NoImage
    /\ cmd = [q \in Threads |-> Idle]
    /\ lastHook = NoHook
    /\ lastPass = NoPass
    /\ sinceWrite = AtStartup(clip)
    /\ taps = NoTaps
    /\ files = {}

(***************************************************************************)
(* The input watcher alone                                                 *)
(***************************************************************************)

\* the parts of the initial state that a component does not read are fixed
QuietDesktop == clock = Epoch /\ window = "hidden" /\ foreground = NullHwnd

HookNext == KeyEvent \/ ClockAdvance \/ FocusChange \/ WindowClosed

InitHook == Init /\ clip = EmptyClip

SpecHook == InitHook /\ [][HookNext]_vars

(***************************************************************************)
(* The clipboard monitor alone, with other applications writing the        *)
(* clipboard                                                               *)
(***************************************************************************)

MonitorNext == MonitorInit \/ StartupPass \/ Tick \/ ExternalCopy

InitMonitor == Init /\ QuietDesktop

SpecMonitor == InitMonitor /\ [][MonitorNext]_vars

(***************************************************************************)
(* The commands, one at a time on one thread, after the hook has recorded  *)
(* a foreground window (or none), with other applications writing the      *)
(* clipboard                                                               *)
(***************************************************************************)

InitPaste ==
    /\ LAST_CTRL_RELEASE = 0
    /\ LAST_FOREGROUND_HWND \in {NullHwnd} \cup AppWindows
    /\ clock = Epoch
    /\ window \in {"visible", "hidden", "closed"}
    /\ foreground = (IF window = "visible" THEN MainHwnd ELSE NullHwnd)
    /\ clip = EmptyClip
    /\ mpc = "start"
    /\ last_text = ""
    /\ last_image_hash = ZeroHash
    /\ seenImage = NoImage
    /\ cmd = [q \in Threads |-> Idle]
    /\ lastHook = NoHook
    /\ lastPass = NoPass
    /\ sinceWrite = AtStartup(clip)
    /\ taps = NoTaps
    /\ files = {}

\* what other applications copy while a command runs
OtherCopies ==
    { [text |-> "b", image |-> NoImage], [text |-> NoText, image |-> ImgB] }

PasteNext == CmdNext("t1") \/ ExternalCopyOf(OtherCopies)

SpecPaste == InitPaste /\ [][PasteNext]_vars

(***************************************************************************)
(* Two invocations of the presentation layer outstanding at a time         *)
(***************************************************************************)

InitInvocations ==
    InitPaste /\ window = "visible" /\ LAST_FOREGROUND_HWND = NullHwnd

\* the presentation layer asks for the paste of a text item or of an image
\* item while an earlier invocation may be outstanding
InvocationsNext ==
    \E p \in Threads :
        \/ paste_text(p, "a")
        \/ paste_image(p, DataUrl(TRUE, TRUE, ImgA))
        \/ TextAttempt(p)
        \/ ImageAttempt(p)
        \/ focus_last_foreground_window(p)
        \/ Settle(p)
        \/ Keystroke(p)
        \/ CmdReturn(p)

SpecInvocations == InitInvocations /\ [][InvocationsNext]_vars

(***************************************************************************)
(* The monitor and the commands of one invocation at a time together, with *)
(* other applications writing the clipboard                                *)
(***************************************************************************)

InitEcho == InitPaste /\ window = "hidden" /\ LAST_FOREGROUND_HWND = NullHwnd

\* the items the presentation layer asks to paste: one the monitor has
\* not seen and one that another application may have copied before
EchoNext ==
    \/ MonitorInit
    \/ StartupPass
    \/ Tick
    \/ \E text \in {"a", "b"} : paste_text("t1", text)
    \/ paste_image("t1", DataUrl(TRUE, TRUE, ImgB))
    \/ TextAttempt("t1")
    \/ ImageAttempt("t1")
    \/ focus_last_foreground_window("t1")
    \/ Settle("t1")
    \/ Keystroke("t1")
    \/ CmdReturn("t1")
    \/ ExternalCopyOf(OtherCopies)

SpecEcho == InitEcho /\ [][EchoNext]_vars

(***************************************************************************)
(* The commands that save an image item to disk and that put it on the     *)
(* clipboard as a file, after the hook has recorded a foreground window    *)
(* (or none), with other applications writing the clipboard                *)
(***************************************************************************)

InitSave == InitPaste /\ window = "hidden"

SaveNext ==
    \/ \E url \in SaveUrls : save_image_data_url("t1", url)
    \/ \E url \in DataUrls : set_clipboard_image("t1", url)
    \/ CmdReturn("t1")
    \/ ExternalCopyOf(OtherCopies)

SpecSave == InitSave /\ [][SaveNext]_vars

(***************************************************************************)
(* The whole process: the hook on its thread, the monitor on its thread    *)
(* and the commands of the presentation layer, after the user has opened   *)
(* the window over application window 1                                    *)
(***************************************************************************)

InitDesk == InitPaste /\ window = "visible" /\ LAST_FOREGROUND_HWND = 1

\* the user releases the Ctrl key
CtrlRelease == hook_callback(0, "VK_LCONTROL", 128, "WM_KEYUP")

\* a turn of the text write loop on a clipboard that accepts the write
AcceptedWrite(p) ==
    /\ cmd[p].pc = "attempt"
    /\ WriteAttempt(p, "Ok")
    /\ UNCHANGED <<window, foreground>>

\* a save of a JPEG item that the file system accepts, into the folder of
\* the file manager window the handle names
SaveToFolder(p) ==
    /\ save_image_data_url(p, SaveUrl(TRUE, TRUE, TRUE, FALSE))
    /\ cmd'[p].save.folder \in Folders
    /\ cmd'[p].result \notin SaveErrors

DeskNext ==
    \/ CtrlRelease
    \/ MonitorInit
    \/ StartupPass
    \/ Tick
    \/ paste_text("t1", "a")
    \/ AcceptedWrite("t1")
    \/ focus_last_foreground_window("t1")
    \/ Settle("t1")
    \/ Keystroke("t1")
    \/ SaveToFolder("t1")
    \/ CmdReturn("t1")

SpecDesk == InitDesk /\ [][DeskNext]_vars

(***************************************************************************)
(* The commands that write an image, one at a time, with other             *)
(* applications writing the clipboard                                      *)
(***************************************************************************)

InitImage == InitPaste /\ window = "hidden" /\ LAST_FOREGROUND_HWND = NullHwnd

ImageNext ==
    \/ \E url \in DataUrls : paste_image("t1", url)
    \/ ImageAttempt("t1")
    \/ focus_last_foreground_window("t1")
    \/ Settle("t1")
    \/ Keystroke("t1")
    \/ \E url \in DataUrls : set_clipboard_image("t1", url)
    \/ CmdReturn("t1")
    \/ ExternalCopyOf(OtherCopies)

SpecImage == InitImage /\ [][ImageNext]_vars

(***************************************************************************)
(* The hook on its thread and the paste commands of one invocation at a    *)
(* time                                                                    *)
(***************************************************************************)

PasteHookNext ==
    \/ CtrlRelease
    \/ paste_text("t1", "a")
    \/ paste_image("t1", DataUrl(TRUE, TRUE, ImgA))
    \/ TextAttempt("t1")
    \/ ImageAttempt("t1")
    \/ focus_last_foreground_window("t1")
    \/ Settle("t1")
    \/ Keystroke("t1")
    \/ CmdReturn("t1")

SpecPasteHook == InitDesk /\ [][PasteHookNext]_vars


(***************************************************************************)
(* Properties of the input watcher                                         *)
(***************************************************************************)

\* the last step was a hook_callback invocation
HookReturned == lastHook.vk # "none"

\* the toggle of key_listener.rs:75-89 took effect on the window
WindowToggled ==
    \/ lastHook.wasWindow = "visible" /\ window = "hidden"
    \/ lastHook.wasWindow = "hidden" /\ window = "visible"
    \/ lastHook.wasWindow = "closed" /\ window = "closed"

\* C1: every invocation of the hook callback, whatever its hook code, key,
\* flags and event kind, and whether or not it fired the toggle or changed
\* LAST_CTRL_RELEASE, hands the event to the next hook exactly once.
C1_ForwardsEveryEventOnce == HookReturned => lastHook.forwards = 1

\* C1 witness: a Ctrl release that fired the toggle and hid or showed the
\* window has been forwarded.
C1_Witness_FiredAndForwarded ==
    /\ HookReturned
    /\ lastHook.fired
    /\ window # lastHook.wasWindow
    /\ lastHook.forwards = 1

\* C2: on a Ctrl release at time now with recorded release time last, the
\* toggle fires (and the record is reset to 0) if and only if
\* now - last < 400 ms; otherwise nothing is toggled and now becomes the
\* recorded release time.
C2_DoubleTapThreshold ==
    (HookReturned /\ lastHook.release) =>
        IF lastHook.now - lastHook.last < DoubleTapMs
        THEN /\ lastHook.fired
             /\ WindowToggled
             /\ LAST_CTRL_RELEASE = 0
        ELSE /\ ~lastHook.fired
             /\ window = lastHook.wasWindow
             /\ foreground = lastHook.wasForeground
             /\ LAST_FOREGROUND_HWND = lastHook.wasHwnd
             /\ LAST_CTRL_RELEASE = lastHook.now

\* C2 witness: a release recorded at t = Epoch followed by a release at
\* t = Epoch + 399 has fired the toggle.
C2_Witness_FiresAt399 ==
    /\ HookReturned
    /\ lastHook.release
    /\ lastHook.last = Epoch
    /\ lastHook.now = Epoch + DoubleTapMs - 1
    /\ lastHook.fired
    /\ window # lastHook.wasWindow

\* the other half of C2's example: after a release at t = Epoch, a release at
\* t = Epoch + 401 fires nothing and re-arms from Epoch + 401
C2_RearmsAt401 ==
    /\ HookReturned
    /\ lastHook.release
    /\ lastHook.last = Epoch
    /\ lastHook.now = Epoch + DoubleTapMs + 1
    /\ ~lastHook.fired
    /\ LAST_CTRL_RELEASE = Epoch + DoubleTapMs + 1


(***************************************************************************)
(* Properties of the clipboard monitor                                     *)
(***************************************************************************)

\* the last step was a pass of the monitor (the startup pass or a tick)
PassEnded == lastPass.kind # "none"

TextEventsOf(pass) ==
    {i \in 1..Len(pass.emitted) : pass.emitted[i].type = "text"}

\* C6, second half, as stated: while the clipboard stays as it was written,
\* the monitor emits at most one Text event.  The code emits the same text
\* twice when the clipboard also holds an image: a pass whose get_text fails
\* emits the image and clears last_text (clipboard_listener.rs:97-101), and
\* the next pass whose get_text succeeds finds the text "new" again.
C6_NoSecondTextEvent == sinceWrite.textEvents <= 1

\* C6, first half, as stated: the first pass after a write of a non-empty
\* text t whose text read succeeds emits exactly one Text event, with
\* content t.  The code emits nothing when t equals last_text
\* (clipboard_listener.rs:87).
C6_NextPollEmits ==
    (PassEnded /\ lastPass.nth = 1 /\ lastPass.textOk /\ clip.text # "")
        => lastPass.emitted = <<TextEvent(clip.text)>>

\* What the code does guarantee: a pass emits at most one event; a Text event
\* carries the text on the clipboard; and a tick that reads a non-empty text
\* emits it exactly when it differs from last_text.
MonitorEmitsWhatItReads ==
    /\ Len(lastPass.emitted) <= 1
    /\ \A i \in TextEventsOf(lastPass) : lastPass.emitted[i].text = clip.text
    /\ (lastPass.kind = "tick" /\ lastPass.textOk /\ clip.text # "")
          => (lastPass.emitted = <<TextEvent(clip.text)>>
                <=> clip.text # lastPass.wasLastText)

\* C7 as stated: no pass, the startup pass included, emits a Text event
\* whose content is the empty string.  The startup pass
\* (clipboard_listener.rs:63-71) emits whatever get_text returns.
C7_NoEmptyTextEvent ==
    \A i \in TextEventsOf(lastPass) : lastPass.emitted[i].text # ""

\* what the fingerprint samples of an image
Sample(img) ==
    LET n == Len(img.bytes)
    IN  [width |-> img.width, height |-> img.height, len |-> n,
         first |-> IF n = 0 THEN -1 ELSE img.bytes[1],
         middle |-> IF n = 0 THEN -1 ELSE img.bytes[(n \div 2) + 1],
         last |-> IF n = 0 THEN -1 ELSE img.bytes[n]]

\* C8: the fingerprint depends only on width, height, byte length and the
\* first, middle and last byte; a tick that reads an image agreeing in these
\* six values with the image whose fingerprint is recorded emits nothing,
\* also when the two images differ in other bytes.
C8_SameSampleSameItem ==
    /\ \A i, j \in Images :
          Sample(i) = Sample(j) => Fingerprint(i) = Fingerprint(j)
    /\ (/\ lastPass.kind = "tick"
        /\ lastPass.imageOk
        /\ lastPass.wasSeenImage # NoImage
        /\ Sample(lastPass.img) = Sample(lastPass.wasSeenImage))
          => /\ lastPass.emitted = <<>>
             /\ last_image_hash = lastPass.wasLastHash

\* C8 witness: the recorded image was replaced by one that differs from it in
\* an unsampled byte, and the tick that read the new image emitted nothing.
C8_Witness_InteriorByteDiffers ==
    /\ lastPass.kind = "tick"
    /\ lastPass.imageOk
    /\ lastPass.wasSeenImage # NoImage
    /\ lastPass.img # lastPass.wasSeenImage
    /\ Sample(lastPass.img) = Sample(lastPass.wasSeenImage)
    /\ lastPass.emitted = <<>>

(***************************************************************************)
(* Properties of the commands                                              *)
(***************************************************************************)

\* the errors of a clipboard write that a command can return
ClipboardErrors == {InitError} \cup WriteErrors

\* the steps of command c that have happened, in order
Steps(c) == { c.log[i] : i \in DOMAIN c.log }

\* C3 (as stated): once a write attempt of a command has succeeded, the
\* command reports success.
C3_CommandReportsSuccess ==
    \A p \in Threads :
        cmd[p].okAt > 0 /\ cmd[p].pc = "done" => cmd[p].result = "Ok"

\* C3 (amended): when the write fails on attempts 1..k-1 and succeeds on
\* attempt k <= 8, attempt k is the last attempt, the write function returns
\* Ok, set_clipboard_text returns Ok, and a paste command goes on to the
\* keystroke and returns Ok exactly when the OS accepted all the events of
\* the keystroke; it never returns a clipboard error.
C3_RetrySuccess ==
    \A p \in Threads :
        LET c == cmd[p]
        IN  c.okAt > 0 =>
              /\ c.okAt <= MaxAttempts
              /\ c.attempts = c.okAt
              /\ c.pc # "attempt"
              /\ LoopResult(c.last_err) = "Ok"
              /\ c.kind = "set_clipboard_text" =>
                    c.pc = "done" /\ c.result = "Ok"
              /\ IsPaste(c.kind) /\ c.pc = "done" =>
                    /\ c.result \notin ClipboardErrors
                    /\ c.sent \in 0..NumInputs
                    /\ c.result = "Ok" <=> c.sent = NumInputs

\* C3: a paste command whose write succeeded on the eighth attempt returned Ok
C3_Witness_SucceedsAtEighth ==
    \E p \in Threads :
        /\ cmd[p].okAt = MaxAttempts
        /\ IsPaste(cmd[p].kind)
        /\ cmd[p].pc = "done" /\ cmd[p].result = "Ok"

C5_StepOrder ==
    \A p \in Threads :
        LET c == cmd[p]
            Rank(s) == CASE s = "hide" -> 1 [] s = "write" -> 2
                         [] s = "focus" -> 3 [] s = "settle" -> 4
                         [] s = "keystroke" -> 5
        IN  IsPaste(c.kind) =>
              /\ \A i, j \in DOMAIN c.log :
                    i < j => \/ Rank(c.log[i]) < Rank(c.log[j])
                             \/ c.log[i] = "write" /\ c.log[j] = "write"
              /\ window # "closed" => c.log # <<>> /\ c.log[1] = "hide"
              /\ "hide" \in Steps(c) => window = "hidden"
              /\ "focus" \in Steps(c) \/ "keystroke" \in Steps(c) => c.okAt > 0
              /\ "settle" \in Steps(c) => "focus" \in Steps(c)
              /\ "keystroke" \in Steps(c) => "settle" \in Steps(c)
              /\ c.pc = "done" /\ c.okAt = 0 =>
                    /\ c.result # "Ok"
                    /\ "focus" \notin Steps(c)
                    /\ "keystroke" \notin Steps(c)
                    /\ c.sent = -1

\* C5: a paste command has gone through all its steps, with a retry
C5_Witness_AllSteps ==
    \E p \in Threads :
        cmd[p].log = <<"hide", "write", "write", "focus", "settle", "keystroke">>

\* C9 (as stated): a paste_text of t that follows a successful paste_text of
\* t returns success too, and the clipboard holds t at its end.
C9_TwoSuccesses ==
    \A p \in Threads :
        LET c == cmd[p]
        IN  /\ c.pc = "done" /\ c.kind = "paste_text"
            /\ c.prev.kind = "paste_text" /\ c.prev.text = c.text
            => c.result = "Ok" /\ clip.text = c.text

\* C9 (amended): a paste_text of t, the first or one that follows a
\* successful paste_text of t, returns success exactly when one of its write
\* attempts succeeded and the OS accepted all the events of the keystroke,
\* and at the end of a successful one the clipboard holds t alone unless
\* something else has written the clipboard since the command's write.
C9_PasteTextRepeatable ==
    \A p \in Threads :
        LET c == cmd[p]
        IN  c.pc = "done" /\ c.kind = "paste_text" =>
              /\ c.result = "Ok" <=> (c.okAt > 0 /\ c.sent = NumInputs)
              /\ c.result = "Ok" /\ c.clean =>
                    clip = [text |-> c.text, image |-> NoImage]

\* C9: the second of two paste_text of "a" has returned success and the
\* clipboard holds "a"
C9_Witness_SecondPaste ==
    \E p \in Threads :
        /\ cmd[p].pc = "done" /\ cmd[p].kind = "paste_text"
        /\ cmd[p].prev = [kind |-> "paste_text", text |-> "a", result |-> "Ok"]
        /\ cmd[p].text = "a" /\ cmd[p].result = "Ok"
        /\ clip.text = "a"

\* C10: a paste command that returned success had all the events of its
\* keystroke accepted by the OS, and one whose keystroke had fewer than all
\* accepted returned the error of send_ctrl_v.
C10_SuccessOnlyIfAllAccepted ==
    \A p \in Threads :
        LET c == cmd[p]
        IN  IsPaste(c.kind) /\ c.pc = "done" =>
              /\ c.result = "Ok" => c.sent = NumInputs
              /\ c.sent \in 0..(NumInputs - 1) =>
                    c.result = SendErrors[c.sent + 1] /\ c.result # "Ok"

\* C10: the OS accepted three of the four events and the command returned
\* an error
C10_Witness_PartialInsert ==
    \E p \in Threads :
        /\ IsPaste(cmd[p].kind) /\ cmd[p].pc = "done"
        /\ cmd[p].sent = NumInputs - 1
        /\ cmd[p].result # "Ok"

\* C11: the focus restore of a paste command asks the OS for the foreground
\* exactly when the stored handle is not 0; whether it asked or not and
\* whatever the OS answered, the command goes on to the settle delay and
\* the keystroke, and its result is the result of the keystroke alone.
C11_FocusBestEffort ==
    \A p \in Threads :
        LET c == cmd[p]
        IN  c.focus.ran =>
              /\ IsPaste(c.kind)
              /\ c.focus.requested <=> c.focus.hwnd # NullHwnd
              /\ c.focus.ok => c.focus.requested
              /\ c.pc \in {"settle", "keystroke", "done"}
              /\ c.pc \in {"keystroke", "done"} => "settle" \in Steps(c)
              /\ c.pc = "done" =>
                    /\ "keystroke" \in Steps(c)
                    /\ c.result = send_ctrl_v(c.sent)

\* C11: a paste command whose focus request the OS refused has returned Ok
C11_Witness_RefusedThenOk ==
    \E p \in Threads :
        /\ cmd[p].focus.requested /\ ~cmd[p].focus.ok
        /\ cmd[p].pc = "done" /\ cmd[p].result = "Ok"

\* a paste command that made no focus request, the stored handle being 0,
\* has returned Ok
C11_NoRequestThenOk ==
    \E p \in Threads :
        /\ cmd[p].focus.ran /\ ~cmd[p].focus.requested
        /\ cmd[p].pc = "done" /\ cmd[p].result = "Ok"

(***************************************************************************)
(* Properties of the save command                                          *)
(***************************************************************************)

\* the save command of c found no folder: the handle was 0 or the resolver
\* returned unresolved
Unresolved(c) ==
    c.kind = "save_image_data_url" /\ c.pc = "done" /\ c.save.ran
    /\ c.save.folder = "none"

\* C12: a save whose folder is unresolved, or whose handle is 0 (the resolver
\* is then not asked), goes to the downloads directory, or to the
\* application data directory when the downloads directory is unavailable;
\* it writes the file there and returns its path unless both directories
\* are unavailable or the directory creation, the clock or the write
\* fails: the unresolved folder alone gives no error.
C12_UnresolvedStillSaves ==
    \A p \in Threads :
        LET c == cmd[p]
            v == c.save
            dir == IF v.downloads THEN "downloads" ELSE "appdata"
            ok == (v.downloads \/ v.appdata) /\ v.mkdirOk /\ v.timeOk /\ v.writeOk
        IN  Unresolved(c) =>
              /\ v.hwnd = NullHwnd => ~v.asked
              /\ ok => /\ c.result \in { dir \o "/Coppy/coppy." \o e : e \in Extensions }
                       /\ c.result \in files
              /\ ~ok => c.result \in SaveErrors \ {"Invalid data URL",
                            "Failed to decode base64", "Failed to decode image",
                            "Failed to encode PNG"}
              /\ c.result = DirError <=> ~v.downloads /\ ~v.appdata

\* C12: the resolver was asked and returned unresolved, the downloads
\* directory was unavailable, and the file was written under the
\* application data directory
C12_Witness_FallsBackToAppData ==
    \E p \in Threads :
        /\ Unresolved(cmd[p]) /\ cmd[p].save.asked
        /\ ~cmd[p].save.downloads
        /\ cmd[p].result = "appdata/Coppy/coppy.png"
        /\ cmd[p].result \in files

(***************************************************************************)
(* Properties of concurrent invocations                                    *)
(***************************************************************************)

\* the paste command of c is between its first step and its completion
InFlight(c) == IsPaste(c.kind) /\ Running(c)

Pasted(c) == IsPaste(c.kind) /\ c.okAt > 0 /\ c.clean

\* the event that carries the content a paste command wrote
EchoOf(c) ==
    IF c.kind = "paste_image" THEN ImageEvent(c.img) ELSE TextEvent(c.text)

\* the last step was a tick that read the format the paste command of c wrote
TickRead(c) ==
    /\ lastPass.kind = "tick"
    /\ IF c.kind = "paste_image" THEN lastPass.imageOk ELSE lastPass.textOk

\* C14 (as stated): the first tick after the write of a paste command emits
\* the written content (taken here for a tick whose read succeeds).
C14_NextTickEmits ==
    \A p \in Threads :
        Pasted(cmd[p]) /\ TickRead(cmd[p]) /\ lastPass.nth = 1 =>
            lastPass.emitted = <<EchoOf(cmd[p])>>

\* C14 (amended): a tick that reads the content a paste command wrote emits
\* it exactly when it is new to the monitor: a text that is not empty and
\* differs from last_text, an image whose fingerprint differs from
\* last_image_hash; otherwise the tick emits nothing.
C14_EchoWhenNew ==
    \A p \in Threads :
        LET c == cmd[p]
            new == IF c.kind = "paste_image"
                   THEN Fingerprint(c.img) # lastPass.wasLastHash
                   ELSE c.text # "" /\ c.text # lastPass.wasLastText
        IN  Pasted(c) =>
              /\ clip = WrittenContent(c)
              /\ TickRead(c) =>
                    lastPass.emitted = IF new THEN <<EchoOf(c)>> ELSE <<>>

\* C14: the first tick after the write of paste_text("a") has emitted "a"
C14_Witness_TextEcho ==
    \E p \in Threads :
        /\ Pasted(cmd[p]) /\ cmd[p].kind = "paste_text" /\ cmd[p].text = "a"
        /\ TickRead(cmd[p]) /\ lastPass.nth = 1
        /\ lastPass.emitted = <<TextEvent("a")>>

\* the first tick after the write of a paste_text of the text the monitor
\* saw last has read it and emitted nothing
C14_NoEchoOfLastSeen ==
    \E p \in Threads :
        /\ Pasted(cmd[p]) /\ cmd[p].kind = "paste_text" /\ cmd[p].text = "b"
        /\ TickRead(cmd[p]) /\ lastPass.nth = 1
        /\ lastPass.wasLastText = "b"
        /\ lastPass.emitted = <<>>

(***************************************************************************)
(* Properties of set_clipboard_image                                       *)
(***************************************************************************)

\* C15: set_clipboard_image fails with a clipboard error only after the
\* retries are exhausted: a clipboard that is unavailable on the first
\* attempt does not make the command fail.
C15_FailsOnlyAfterRetries ==
    \A p \in Threads :
        LET c == cmd[p]
        IN  /\ c.kind = "set_clipboard_image" /\ c.pc = "done"
            /\ c.result \in FileDropErrors
            => c.attempts = MaxAttempts

\* set_clipboard_image found the clipboard open elsewhere on its first
\* attempt and returned the error, the temporary file written
C15_FailsAtFirstAttempt ==
    \E p \in Threads :
        /\ cmd[p].kind = "set_clipboard_image" /\ cmd[p].pc = "done"
        /\ cmd[p].attempts = 1
        /\ cmd[p].result = "Failed to open clipboard"
        /\ TempFile \in files

(***************************************************************************)
(* Properties of failures                                                  *)
(***************************************************************************)

\* the command of c has ended without a result for its caller
Aborted(c) == c.pc = EnigoFailure

\* C16: no failure inside a command is fatal: a command that has started
\* is on its way to a result or has returned one, it has not aborted its
\* thread.
C16_CommandFailuresReturned ==
    \A p \in Threads : ~Aborted(cmd[p])

\* simulate_paste has aborted: the input-injection facility could not be
\* initialised
C16_SimulatePasteAborts ==
    \E p \in Threads : cmd[p].kind = "simulate_paste" /\ Aborted(cmd[p])

(***************************************************************************)
(* Properties of the monitor's memory                                      *)
(***************************************************************************)

\* the pass that has just ended emitted an event of this type
Emitted(type) == lastPass.emitted # <<>> /\ lastPass.emitted[1].type = type

\* C17: a tick that emits a Text event sets last_text to the text and
\* clears last_image_hash.
C17_TextClearsFingerprint ==
    lastPass.kind = "tick" /\ Emitted("text") =>
        /\ last_text = lastPass.content
        /\ last_image_hash = ZeroHash

\* a tick has read, after a Text event, the image the monitor emitted
\* before that text, and has emitted nothing
C17_SameImageNotReemitted ==
    /\ lastPass.kind = "tick" /\ lastPass.imageOk
    /\ lastPass.img = lastPass.wasSeenImage
    /\ lastPass.wasLastText \notin {"", NoText}
    /\ lastPass.emitted = <<>>

\* C18: a tick that emits an Image event sets last_image_hash to the
\* fingerprint of the image and clears last_text, and a tick that reads a
\* non-empty text while last_text is clear emits it, so that the text
\* emitted before the image is emitted again when it returns.
C18_ImageClearsText ==
    /\ lastPass.kind = "tick" /\ Emitted("image") =>
          /\ last_image_hash = Fingerprint(lastPass.img)
          /\ last_text = ""
    /\ /\ lastPass.kind = "tick" /\ lastPass.textOk
       /\ lastPass.content # "" /\ lastPass.wasLastText = ""
       => /\ lastPass.emitted = <<TextEvent(lastPass.content)>>
          /\ last_text = lastPass.content

\* C18: a tick has emitted an Image event and cleared the last_text "a" left
\* by an earlier Text event
C18_Witness_TextForgotten ==
    /\ lastPass.kind = "tick" /\ Emitted("image")
    /\ lastPass.wasLastText = "a"
    /\ last_text = ""

\* a tick has emitted "a" after an Image event had cleared last_text
C18_TextAfterImage ==
    /\ lastPass.kind = "tick" /\ lastPass.emitted = <<TextEvent("a")>>
    /\ lastPass.wasLastText = ""
    /\ lastPass.wasLastHash # ZeroHash

\* C19: a tick that emits no Text event (the text read failed, or gave an
\* empty text, or gave last_text) attempts the image read.
C19_ImageTriedWhenNoText ==
    lastPass.kind = "tick" /\ ~Emitted("text") => lastPass.imageTried

\* a tick has read the text it knew, and has emitted nothing although the
\* clipboard holds an image whose fingerprint is not last_image_hash
C19_NewImageMissed ==
    /\ lastPass.kind = "tick" /\ lastPass.textOk
    /\ lastPass.content = lastPass.wasLastText
    /\ lastPass.emitted = <<>> /\ ~lastPass.imageTried
    /\ clip.image # NoImage /\ FitsRgba(clip.image)
    /\ Fingerprint(clip.image) # lastPass.wasLastHash

\* C20: while the content that was on the clipboard at startup stays there,
\* the monitor emits it once in total: no second Text event and no second
\* Image event follow the one of the startup pass or of a later tick.
C20_StartupContentOnce ==
    sinceWrite.initial =>
        sinceWrite.textEvents <= 1 /\ sinceWrite.imageEvents <= 1

\* the startup pass emitted the text of the clipboard, and a tick has
\* emitted it again, the clipboard unchanged since startup
C20_StartupTextTwice ==
    /\ sinceWrite.initial /\ sinceWrite.textEvents = 2
    /\ lastPass.kind = "tick" /\ Emitted("text")
    /\ lastPass.content # ""

(***************************************************************************)
(* Properties of the gesture state                                         *)
(***************************************************************************)

\* C21: a Ctrl release that finds no recorded release (LAST_CTRL_RELEASE = 0)
\* fires nothing, whatever now is: it records now and leaves the window, the
\* focus and the stored handle as they were.
C21_IdleNeverFires ==
    HookReturned /\ lastHook.release /\ lastHook.last = 0 =>
        /\ ~lastHook.fired
        /\ LAST_CTRL_RELEASE = lastHook.now
        /\ window = lastHook.wasWindow
        /\ LAST_FOREGROUND_HWND = lastHook.wasHwnd

\* a first Ctrl release, with no release recorded, has toggled the window:
\* the clock stood less than 400 ms after UNIX_EPOCH
C21_FiresFromIdle ==
    /\ HookReturned /\ lastHook.release /\ lastHook.last = 0
    /\ lastHook.now = DoubleTapMs - 1
    /\ lastHook.fired
    /\ window # lastHook.wasWindow

\* C22: a release that fires the toggle resets LAST_CTRL_RELEASE to 0,
\* whether the window was visible, hidden or closed; and of three releases,
\* each less than 400 ms after the one before, exactly one fires, the third
\* recording its time and firing nothing.
C22_FireResetsToIdle ==
    /\ HookReturned /\ lastHook.fired => LAST_CTRL_RELEASE = 0
    /\ taps.quick = 3 => taps.fires = 1
    /\ HookReturned /\ lastHook.release /\ taps.quick = 3 =>
          ~lastHook.fired /\ LAST_CTRL_RELEASE = lastHook.now

\* the third of three quick releases has re-armed the gesture after the
\* second one fired
C22_ThirdReleaseRearms ==
    /\ HookReturned /\ lastHook.release
    /\ taps.quick = 3 /\ taps.fires = 1
    /\ lastHook.last = 0 /\ ~lastHook.fired
    /\ LAST_CTRL_RELEASE = lastHook.now

\* a release has fired the toggle with the window closed and reset the record
C22_ResetWithoutWindow ==
    /\ HookReturned /\ lastHook.fired
    /\ lastHook.wasWindow = "closed"
    /\ lastHook.last # 0 /\ LAST_CTRL_RELEASE = 0

\* three quick releases have fired the toggle three times
C22_ThreeFires == taps.quick = 3 /\ taps.fires = 3

C24_OnlyHookWrites ==
    [][ (LAST_CTRL_RELEASE' # LAST_CTRL_RELEASE
           \/ LAST_FOREGROUND_HWND' # LAST_FOREGROUND_HWND)
        => lastHook' # NoHook ]_vars

\* C24: a paste command has restored the focus to the handle the hook
\* stored and sent the keystroke, the monitor has passed, and the handle
\* is still stored
C24_Witness_HandleKeptAfterPaste ==
    /\ cmd["t1"].pc = "done" /\ IsPaste(cmd["t1"].kind) /\ cmd["t1"].result = "Ok"
    /\ cmd["t1"].focus.ran /\ cmd["t1"].focus.hwnd # NullHwnd
    /\ LAST_FOREGROUND_HWND = cmd["t1"].focus.hwnd
    /\ mpc = "loop" /\ sinceWrite.passes > 0

\* C24: a save command has returned after the hook recorded a release and
\* stored a handle
C24_Witness_SaveAfterHook ==
    /\ cmd["t1"].pc = "done" /\ cmd["t1"].kind = "save_image_data_url"
    /\ LAST_CTRL_RELEASE # 0 /\ LAST_FOREGROUND_HWND # NullHwnd

\* the event the hook was called with is a key-down of Ctrl or an event of
\* another key
NotTheGesture(h) ==
    \/ h.vk = "VK_OTHER"
    \/ h.flags < 128 /\ h.event \in {"WM_KEYDOWN", "WM_SYSKEYDOWN"}

\* C25: a key-down of Ctrl and every event of another key leave
\* LAST_CTRL_RELEASE, LAST_FOREGROUND_HWND, the window and the foreground as
\* they were; a Ctrl release that comes after such events fires exactly
\* when it comes less than 400 ms after the recorded release, as it would
\* without them.
C25_OtherEventsIgnored ==
    /\ HookReturned /\ NotTheGesture(lastHook) =>
          /\ LAST_CTRL_RELEASE = lastHook.last
          /\ LAST_FOREGROUND_HWND = lastHook.wasHwnd
          /\ window = lastHook.wasWindow
          /\ foreground = lastHook.wasForeground
    /\ HookReturned /\ lastHook.release /\ lastHook.between =>
          (lastHook.fired <=> lastHook.now - lastHook.last < DoubleTapMs)

\* C25: another key was released while a Ctrl release was recorded, and the
\* record is as it was
C25_Witness_OtherKeyReleased ==
    /\ HookReturned /\ lastHook.vk = "VK_OTHER" /\ lastHook.code >= 0
    /\ lastHook.flags = 128 /\ lastHook.event = "WM_KEYUP"
    /\ lastHook.last = Epoch /\ LAST_CTRL_RELEASE = Epoch

\* C25: the second Ctrl release of a double tap toggled the window although
\* the hook saw other events between the two releases
C25_Witness_FiresAcrossOtherKeys ==
    /\ HookReturned /\ lastHook.fired /\ lastHook.between
    /\ lastHook.last = Epoch /\ lastHook.now = Epoch + DoubleTapMs - 1
    /\ window # lastHook.wasWindow

\* the errors of paste_image's decoding steps (lib.rs:693-703)
DecodeErrors ==
    { "Invalid data URL", "Failed to decode base64", "Failed to decode image" }

\* C26: a paste_image whose payload has no comma, is not base64 or is not an
\* image has returned a decoding error as soon as it has started: it made
\* no write attempt, asked for no focus restore and sent no keystroke.
C26_MalformedPayloadFailsAtOnce ==
    \A p \in Threads :
        LET c == cmd[p]
        IN  /\ c.kind = "paste_image" /\ c.img = NoImage =>
                /\ c.pc = "done"
                /\ c.result \in DecodeErrors
            /\ c.kind = "paste_image" /\ c.result \in DecodeErrors =>
                /\ c.img = NoImage
                /\ c.attempts = 0 /\ c.attemptErr = "none"
                /\ c.log \in {<<>>, <<"hide">>}
                /\ ~c.focus.ran
                /\ c.sent = -1

\* C26: paste_image hid the window and returned the base64 error with no
\* step after the hide
C26_Witness_Base64Error ==
    /\ cmd["t1"].kind = "paste_image" /\ cmd["t1"].pc = "done"
    /\ cmd["t1"].result = "Failed to decode base64"
    /\ cmd["t1"].log = <<"hide">> /\ window = "hidden"
    /\ cmd["t1"].attempts = 0

C27_Witness_ToggleAfterReturn ==
    /\ HookReturned /\ lastHook.fired /\ window = "visible"
    /\ cmd["t1"].pc = "done" /\ cmd["t1"].result = "Ok"
    /\ IsPaste(cmd["t1"].kind)

\* C28: between the attempts of try_set_clipboard_image, when it returns
\* and when set_clipboard_file returns, the process does not hold the
\* clipboard open, and it has at no point opened it while holding it.
C28_ClipboardClosed ==
    \A p \in Threads : cmd[p].held = 0 /\ cmd[p].peak <= 1

\* C28: try_set_clipboard_image is about to retry after an attempt that
\* opened the clipboard and failed at GlobalLock
C28_Witness_RetryAfterLockFailure ==
    /\ cmd["t1"].kind = "paste_image" /\ cmd["t1"].pc = "attempt"
    /\ cmd["t1"].attempts >= 1 /\ cmd["t1"].peak = 1 /\ cmd["t1"].held = 0
    /\ cmd["t1"].attemptErr = "Failed to lock global memory"

\* C28: set_clipboard_file has returned the SetClipboardData error after it
\* opened the clipboard
C28_Witness_FileDropFailed ==
    /\ cmd["t1"].kind = "set_clipboard_image" /\ cmd["t1"].pc = "done"
    /\ cmd["t1"].result = "Failed to set clipboard data"
    /\ cmd["t1"].peak = 1 /\ cmd["t1"].held = 0

\* the image write of command c returned an error and no other application
\* has written the clipboard since the command's last attempt
ImageWriteFailed(c) ==
    /\ c.pc = "done" /\ c.clean
    /\ \/ c.kind = "paste_image" /\ c.result \in ImageWriteErrors
       \/ c.kind = "set_clipboard_image" /\ c.result \in FileDropErrors

\* C29: when the image write of a command has returned an error, the
\* clipboard holds what it held when the write began.
C29_FailedWriteKeepsContent ==
    \A p \in Threads : ImageWriteFailed(cmd[p]) => clip = cmd[p].before

\* C29: set_clipboard_file returned the GlobalLock error and the text that
\* was on the clipboard is gone
C29_FileDropLosesContent ==
    /\ ImageWriteFailed(cmd["t1"]) /\ cmd["t1"].kind = "set_clipboard_image"
    /\ cmd["t1"].result = "Failed to lock memory"
    /\ cmd["t1"].before.text = "b" /\ clip = EmptyClip

\* C29: try_set_clipboard_image returned the error of its eighth attempt
\* and the text that was on the clipboard is gone
C29_PasteImageLosesContent ==
    /\ ImageWriteFailed(cmd["t1"]) /\ cmd["t1"].kind = "paste_image"
    /\ cmd["t1"].attempts = MaxAttempts
    /\ cmd["t1"].before.text = "b" /\ clip = EmptyClip

\* C29: a write that failed at OpenClipboard left the content in place
C29_OpenFailureKeepsContent ==
    /\ ImageWriteFailed(cmd["t1"]) /\ cmd["t1"].kind = "set_clipboard_image"
    /\ cmd["t1"].result = "Failed to open clipboard"
    /\ cmd["t1"].before.text = "b" /\ clip = cmd["t1"].before

====
